---- MODULE Spec2Model ----
(***************************************************************************)
(* Model of livecam_ascii.py: the ASCIIConverter (ramp construction,       *)
(* pixel_to_char, frame_to_ascii) and the LiveCamASCII driver (run,        *)
(* initialize_camera, cleanup, main).                                      *)
(*                                                                         *)
(* Characters are one-character strings, a Python str is a sequence of     *)
(* them.  The camera handle `cap` is "None" before VideoCapture(0),        *)
(* "closed" when the capture object exists but isOpened() is false,        *)
(* "open" when acquired and "released" after cap.release().                *)
(***************************************************************************)
EXTENDS Integers, Sequences, FiniteSets

VARIABLES
    args,         \* the constructor arguments (char_set name, invert, width, height)
    char_set,     \* ASCIIConverter.char_set
    invert,       \* ASCIIConverter.invert
    width,        \* LiveCamASCII.width
    height,       \* LiveCamASCII.height
    cap,          \* LiveCamASCII.cap
    running,      \* LiveCamASCII.running
    frame_count,  \* LiveCamASCII.frame_count
    start_time,   \* LiveCamASCII.start_time: "None" or "set"
    pc,           \* position of the process in main()/run()
    ret,          \* run(): the flag returned by the last cap.read()
    frame,        \* run(): the frame returned by the last cap.read(), <<>> before
    ascii_art,    \* run(): the text returned by the last frame_to_ascii, <<>> before
    out,          \* what was printed, one tag per message
    exit_code,    \* exit status of the process, -1 while it runs
    n_open,       \* calls of cv2.VideoCapture
    n_read,       \* calls of cap.read
    n_convert,    \* calls of frame_to_ascii
    n_release,    \* calls of cap.release
    brightness,   \* pixel_to_char: its argument, -1 when not called
    index,        \* pixel_to_char: the index it computed
    ch            \* pixel_to_char: the character it returned

vars == <<args, char_set, invert, width, height, cap, running, frame_count,
          start_time, pc, ret, frame, ascii_art, out, exit_code,
          n_open, n_read, n_convert, n_release, brightness, index, ch>>

appVars == <<cap, running, frame_count, start_time, ret, frame, ascii_art,
             out, exit_code, n_open, n_read, n_convert, n_release>>

pixelVars == <<brightness, index, ch>>

cfgVars == <<args, char_set, invert, width, height>>

(***************************************************************************)
(* Bounds of the model.                                                    *)
(***************************************************************************)
MaxFrames == 2      \* frames rendered before the model stops reading
MaxSrc == 2         \* rows and columns of a camera frame
MaxDim == 2         \* largest requested output width and height

(***************************************************************************)
(* Program constants.                                                      *)
(***************************************************************************)
MaxBrightness == 255
ASCII_WIDTH == 120
ASCII_HEIGHT == 60

NL == "\n"

Min(a, b) == IF a < b THEN a ELSE b
Max(a, b) == IF a > b THEN a ELSE b

(***************************************************************************)
(* ASCIIConverter                                                          *)
(***************************************************************************)
CharSetNames == {"standard", "dense", "light", "minimal"}

CHAR_SETS ==
    [n \in CharSetNames |->
        CASE n = "standard" -> <<"@", "%", "#", "*", "+", "=", "-", ":", ".", " ">>
          [] n = "dense"    -> <<"@", "#", "$", "%", "&", "*", "+", "=", "-", ":", ".", " ">>
          [] n = "light"    -> <<" ", ".", ":", "-", "=", "+", "*", "#", "%", "@">>
          [] n = "minimal"  -> <<"@", ".", " ">>]

\* CHAR_SETS.get(char_set, CHAR_SETS['standard'])
GetCharSet(name) ==
    IF name \in CharSetNames THEN CHAR_SETS[name] ELSE CHAR_SETS["standard"]

\* s[::-1]
Reverse(s) == [i \in 1..Len(s) |-> s[Len(s) + 1 - i]]

\* faulty variant: the invert flag is stored but the ramp is not reversed
ApplyInvertIgnored(cs, inv) == cs

\* if self.invert: self.char_set = self.char_set[::-1]
ApplyInvert(cs, inv) == IF inv THEN Reverse(cs) ELSE cs

\* ASCIIConverter.__init__: the ramp the converter ends up with
ConverterCharSet(name, inv) == ApplyInvert(GetCharSet(name), inv)

\* Python's s[i]: negative indices count from the end, others raise IndexError
CharAt(cs, i) ==
    IF 0 <= i /\ i < Len(cs) THEN cs[i + 1]
    ELSE IF -Len(cs) <= i /\ i < 0 THEN cs[Len(cs) + i + 1]
    ELSE "IndexError"

\* int((brightness / 255.0) * (len - 1)).  The product is computed in IEEE
\* doubles and truncated.  When brightness*(len-1) is no multiple of 255 the
\* exact quotient is at least 1/255 away from an integer, far more than the
\* rounding error, so the truncation equals the integer quotient.  When it
\* is a multiple the doubles may land just below the integer; for the ramp
\* lengths of CHAR_SETS (3, 10, 12) the multiples are brightness 0, 85, 170,
\* 255 and the interpreter yields the exact integer for each of them.
RawIndex(b, cs) == (b * (Len(cs) - 1)) \div MaxBrightness

\* faulty variant: scales by len instead of len - 1 and does not clamp
PixelIndexNoClampLen(b, cs) == (b * Len(cs)) \div MaxBrightness

\* faulty variant: normalises by 256 instead of 255
PixelIndexDiv256(b, cs) ==
    Max(0, Min((b * (Len(cs) - 1)) \div (MaxBrightness + 1), Len(cs) - 1))

\* faulty variant: the product is formed in 8 bits and wraps
PixelIndexWrap(b, cs) ==
    Max(0, Min(((b * (Len(cs) - 1)) % (MaxBrightness + 1)) \div MaxBrightness, Len(cs) - 1))

\* index = max(0, min(index, len(self.char_set) - 1))
PixelIndex(b, cs) == Max(0, Min(RawIndex(b, cs), Len(cs) - 1))

\* ASCIIConverter.pixel_to_char
pixel_to_char(b, cs) == CharAt(cs, PixelIndex(b, cs))

(***************************************************************************)
(* Frames.  A frame is a sequence of rows of BGR pixels.                   *)
(***************************************************************************)
Patterns == {"gray", "checker", "colour"}

PatternPixel(p, r, c) ==
    CASE p = "gray"    -> <<127, 127, 127>>
      [] p = "checker" -> IF (r + c) % 2 = 0 THEN <<255, 255, 255>> ELSE <<0, 0, 0>>
      [] p = "colour"  -> <<(r * 80) % 256, (c * 120) % 256, 200>>

MakeFrame(p, rows, cols) ==
    [r \in 1..rows |-> [c \in 1..cols |-> PatternPixel(p, r, c)]]

\* what cap.read() can return with ret = True
Frames == {MakeFrame(p, rows, cols) : p \in Patterns, rows \in 1..MaxSrc, cols \in 1..MaxSrc}

\* cv2.cvtColor(frame, cv2.COLOR_BGR2GRAY): fixed-point luma of a BGR pixel
GrayPixel(px) == (px[1] * 1868 + px[2] * 9617 + px[3] * 4899 + 8192) \div 16384

CvtColorGray(f) == [r \in 1..Len(f) |-> [c \in 1..Len(f[r]) |-> GrayPixel(f[r][c])]]

\* length of the intersection of source cell x and target cell j of a line of
\* n source cells rescaled to m target cells, in units of 1/m of a source cell
Overlap(x, j, n, m) == Max(0, Min(x * m, j * n) - Max((x - 1) * m, (j - 1) * n))

RECURSIVE SumTo(_, _, _)
\* sum of F[k] for k in lo..hi
SumTo(F, lo, hi) == IF lo > hi THEN 0 ELSE F[lo] + SumTo(F, lo + 1, hi)

AreaSample(g, i, j, w, h) ==
    LET sh == Len(g)
        sw == Len(g[1])
        rowSum == [r \in 1..sh |->
                     Overlap(r, i, sh, h) *
                     SumTo([c \in 1..sw |-> Overlap(c, j, sw, w) * g[r][c]], 1, sw)]
        total == SumTo(rowSum, 1, sh)
    IN  (2 * total + sh * sw) \div (2 * sh * sw)

\* cv2.resize(gray, (width, height), interpolation=cv2.INTER_AREA): h rows of
\* w samples, each the area-weighted mean of the source cells it covers
Resize(g, w, h) == [i \in 1..h |-> [j \in 1..w |-> AreaSample(g, i, j, w, h)]]

RECURSIVE JoinStr(_, _)
\* sep.join(parts) for a sequence of strings (sequences of characters)
JoinStr(sep, parts) ==
    IF Len(parts) = 0 THEN <<>>
    ELSE IF Len(parts) = 1 THEN parts[1]
    ELSE parts[1] \o sep \o JoinStr(sep, Tail(parts))

\* ''.join(self.pixel_to_char(pixel) for pixel in row)
AsciiLine(row, cs) == [j \in 1..Len(row) |-> pixel_to_char(row[j], cs)]

\* faulty variant: every row is terminated by a line break
FrameToAsciiTrailingNL(f, w, h, cs) ==
    LET resized == Resize(CvtColorGray(f), w, h)
    IN  JoinStr(<<>>, [i \in 1..Len(resized) |-> AsciiLine(resized[i], cs) \o <<NL>>])

\* ASCIIConverter.frame_to_ascii
frame_to_ascii(f, w, h, cs) ==
    LET resized == Resize(CvtColorGray(f), w, h)
    IN  JoinStr(<<NL>>, [i \in 1..Len(resized) |-> AsciiLine(resized[i], cs)])

\* cv2.resize raises cv2.error for an empty target size
ResizeFails(w, h) == w <= 0 \/ h <= 0

(***************************************************************************)
(* Construction: LiveCamASCII.__init__ and ASCIIConverter.__init__.  No    *)
(* argument is validated; an unknown ramp name falls back to 'standard'.   *)
(***************************************************************************)
ArgNames == CharSetNames \cup {"unknown"}

Construct(a) ==
    /\ args = a
    /\ char_set = ConverterCharSet(a.char_set, a.invert)
    /\ invert = a.invert
    /\ width = a.width
    /\ height = a.height
    /\ cap = "None"
    /\ running = FALSE
    /\ frame_count = 0
    /\ start_time = "None"
    /\ ret = "None"
    /\ frame = <<>>
    /\ ascii_art = <<>>
    /\ out = <<>>
    /\ exit_code = -1
    /\ n_open = 0
    /\ n_read = 0
    /\ n_convert = 0
    /\ n_release = 0

\* main(): the application is constructed and run() is about to be called
Init ==
    /\ \E a \in [char_set : ArgNames, invert : BOOLEAN,
                 width : 0..MaxDim, height : 0..MaxDim] : Construct(a)
    /\ pc = "start"
    /\ brightness = -1
    /\ index = -1
    /\ ch = ""

(***************************************************************************)
(* LiveCamASCII.run                                                        *)
(***************************************************************************)
\* cleanup(): if self.cap is not None: self.cap.release()
CleanupCap(c) == IF c # "None" THEN "released" ELSE c

CleanupReleases(c) == IF c # "None" THEN 1 ELSE 0

\* faulty variant: the result of initialize_camera() is not tested
InitializeCameraIgnoreFailure ==
    /\ pc = "start"
    /\ \E opened \in BOOLEAN :
        /\ cap' = IF opened THEN "open" ELSE "closed"
        /\ out' = IF opened THEN out ELSE out \o <<"ERR_OPEN", "TROUBLESHOOTING">>
    /\ n_open' = n_open + 1
    /\ pc' = "header"
    /\ exit_code' = exit_code
    /\ UNCHANGED <<cfgVars, pixelVars, running, frame_count, start_time, ret,
                   frame, ascii_art, n_read, n_convert, n_release>>

\* run() calls initialize_camera(); when the camera cannot be opened it prints
\* the diagnostic and run() returns, main() returns and the process ends
InitializeCamera ==
    /\ pc = "start"
    /\ \E opened \in BOOLEAN :
        IF opened
        THEN /\ cap' = "open"
             /\ out' = out
             /\ pc' = "header"
             /\ exit_code' = exit_code
        ELSE /\ cap' = "closed"
             /\ out' = out \o <<"ERR_OPEN", "TROUBLESHOOTING">>
             /\ pc' = "exited"
             /\ exit_code' = 0
    /\ n_open' = n_open + 1
    /\ UNCHANGED <<cfgVars, pixelVars, running, frame_count, start_time, ret,
                   frame, ascii_art, n_read, n_convert, n_release>>

\* clear_screen(); print_header(); self.running = True; self.start_time = time.time()
PrintHeader ==
    /\ pc = "header"
    /\ out' = out \o <<"HEADER">>
    /\ running' = TRUE
    /\ start_time' = "set"
    /\ pc' = "loop"
    /\ UNCHANGED <<cfgVars, pixelVars, cap, frame_count, ret, frame, ascii_art,
                   exit_code, n_open, n_read, n_convert, n_release>>

\* KeyboardInterrupt between initialize_camera() and the try statement (the
\* header sleeps for a second there): nothing catches it, run() and main() are
\* left by the exception and cleanup() is not called
InterruptHeader ==
    /\ pc = "header"
    /\ pc' = "exited"
    /\ \E code \in {1, 130} : exit_code' = code
    /\ UNCHANGED <<cfgVars, pixelVars, cap, running, frame_count, start_time, ret,
                   frame, ascii_art, out, n_open, n_read, n_convert, n_release>>

\* faulty variant: a failed read is reported and the loop continues
ReadFrameRetry ==
    /\ pc = "loop"
    /\ running
    /\ frame_count < MaxFrames
    /\ n_read' = n_read + 1
    /\ \/ /\ ret' = "False"
          /\ frame' = <<>>
          /\ out' = out \o <<"ERR_READ">>
          /\ pc' = "loop"
       \/ /\ ret' = "True"
          /\ frame' \in Frames
          /\ out' = out
          /\ pc' = "convert"
    /\ UNCHANGED <<cfgVars, pixelVars, cap, running, frame_count, start_time,
                   ascii_art, exit_code, n_open, n_convert, n_release>>

\* while self.running: ret, frame = self.cap.read(); if not ret: print, break,
\* and the finally clause runs cleanup()
ReadFrame ==
    /\ pc = "loop"
    /\ running
    /\ frame_count < MaxFrames
    /\ n_read' = n_read + 1
    /\ \/ /\ ret' = "False"
          /\ frame' = <<>>
          /\ out' = out \o <<"ERR_READ", "GOODBYE">>
          /\ cap' = CleanupCap(cap)
          /\ n_release' = n_release + CleanupReleases(cap)
          /\ pc' = "exited"
          /\ exit_code' = 0
       \/ /\ ret' = "True"
          /\ frame' \in Frames
          /\ out' = out
          /\ pc' = "convert"
          /\ UNCHANGED <<cap, n_release, exit_code>>
    /\ UNCHANGED <<cfgVars, pixelVars, running, frame_count, start_time,
                   ascii_art, n_open, n_convert>>

\* ascii_art = self.converter.frame_to_ascii(frame, width, height); a cv2.error
\* leaves the loop through the finally clause and ends the process
Convert ==
    /\ pc = "convert"
    /\ n_convert' = n_convert + 1
    /\ IF ResizeFails(width, height)
       THEN /\ out' = out \o <<"GOODBYE">>
            /\ cap' = CleanupCap(cap)
            /\ n_release' = n_release + CleanupReleases(cap)
            /\ pc' = "exited"
            /\ exit_code' = 1
            /\ UNCHANGED ascii_art
       ELSE /\ ascii_art' = frame_to_ascii(frame, width, height, char_set)
            /\ pc' = "print"
            /\ UNCHANGED <<out, cap, n_release, exit_code>>
    /\ UNCHANGED <<cfgVars, pixelVars, running, frame_count, start_time, ret,
                   frame, n_open, n_read>>

\* clear_screen(); print(ascii_art); self.frame_count += 1; the status line
PrintFrame ==
    /\ pc = "print"
    /\ out' = out \o <<"ART", "STATUS">>
    /\ frame_count' = frame_count + 1
    /\ pc' = "key"
    /\ UNCHANGED <<cfgVars, pixelVars, cap, running, start_time, ret, frame,
                   ascii_art, exit_code, n_open, n_read, n_convert, n_release>>

\* key = cv2.waitKey(1) & 0xFF; 'q' clears running and breaks (cleanup runs),
\* any other key sleeps and goes round the loop
WaitKey ==
    /\ pc = "key"
    /\ \/ /\ running' = FALSE
          /\ out' = out \o <<"GOODBYE">>
          /\ cap' = CleanupCap(cap)
          /\ n_release' = n_release + CleanupReleases(cap)
          /\ pc' = "exited"
          /\ exit_code' = 0
       \/ /\ pc' = "loop"
          /\ UNCHANGED <<running, out, cap, n_release, exit_code>>
    /\ UNCHANGED <<cfgVars, pixelVars, frame_count, start_time, ret, frame,
                   ascii_art, n_open, n_read, n_convert>>

\* KeyboardInterrupt inside the try statement: the handler prints, the finally
\* clause runs cleanup(), run() returns normally
InterruptLoop ==
    /\ pc \in {"loop", "convert", "print", "key"}
    /\ out' = out \o <<"INTERRUPTED", "GOODBYE">>
    /\ cap' = CleanupCap(cap)
    /\ n_release' = n_release + CleanupReleases(cap)
    /\ pc' = "exited"
    /\ exit_code' = 0
    /\ UNCHANGED <<cfgVars, pixelVars, running, frame_count, start_time, ret,
                   frame, ascii_art, n_open, n_read, n_convert>>

Next ==
    \/ InitializeCamera
    \/ PrintHeader
    \/ InterruptHeader
    \/ ReadFrame
    \/ Convert
    \/ PrintFrame
    \/ WaitKey
    \/ InterruptLoop

Spec == Init /\ [][Next]_vars

(***************************************************************************)
(* pixel_to_char on its own: every configured converter, every brightness. *)
(***************************************************************************)
InitPixel ==
    /\ \E a \in [char_set : ArgNames, invert : BOOLEAN,
                 width : {ASCII_WIDTH}, height : {ASCII_HEIGHT}] : Construct(a)
    /\ pc = "pixel"
    /\ brightness \in 0..MaxBrightness
    /\ index = -1
    /\ ch = ""

\* self.pixel_to_char(brightness)
PixelToChar ==
    /\ pc = "pixel"
    /\ index' = PixelIndex(brightness, char_set)
    /\ ch' = pixel_to_char(brightness, char_set)
    /\ pc' = "pixel_done"
    /\ UNCHANGED <<cfgVars, appVars, brightness>>

NextPixel == PixelToChar

SpecPixel == InitPixel /\ [][NextPixel]_vars

(***************************************************************************)
(* Helpers of the properties.                                              *)
(***************************************************************************)
RECURSIVE SplitLines(_)
\* text.split('\n'): the lines of a text, as Python splits it
SplitLines(s) ==
    IF \A i \in 1..Len(s) : s[i] # NL THEN <<s>>
    ELSE LET k == CHOOSE i \in 1..Len(s) :
                      s[i] = NL /\ \A m \in 1..(i - 1) : s[m] # NL
         IN  <<SubSeq(s, 1, k - 1)>> \o SplitLines(SubSeq(s, k + 1, Len(s)))

Range(s) == {s[i] : i \in 1..Len(s)}

Count(s, x) == Cardinality({i \in 1..Len(s) : s[i] = x})

EndsWith(s, t) ==
    /\ Len(s) >= Len(t)
    /\ SubSeq(s, Len(s) - Len(t) + 1, Len(s)) = t

(***************************************************************************)
(* Properties of pixel_to_char, under SpecPixel.                           *)
(***************************************************************************)
\* C1: for every brightness 0..255 and every configured ramp (the four named
\* ramps, inverted or not, and the fallback of an unknown name) the index
\* pixel_to_char computes lies in 0..L-1 and the character it returns is a
\* member of the ramp.
C1_IndexInRamp ==
    /\ Len(char_set) >= 1
    /\ pc = "pixel_done" =>
        /\ 0 <= index
        /\ index <= Len(char_set) - 1
        /\ ch = char_set[index + 1]
        /\ ch \in Range(char_set)

C1_Witness ==
    /\ pc = "pixel_done"
    /\ args.char_set = "unknown"
    /\ invert
    /\ brightness = MaxBrightness
    /\ index = Len(char_set) - 1
    /\ ch = "@"

\* C2: for a ramp of length L >= 2, brightness 0 maps to index 0 (the first
\* character of the ramp as oriented) and brightness 255 to index L-1 (the
\* last); with the non-inverted minimal ramp 0 gives '@' and 255 gives ' '.
C2_Endpoints ==
    (pc = "pixel_done" /\ Len(char_set) >= 2) =>
        /\ brightness = 0 => (index = 0 /\ ch = char_set[1])
        /\ brightness = MaxBrightness =>
               (index = Len(char_set) - 1 /\ ch = char_set[Len(char_set)])
        /\ (args.char_set = "minimal" /\ ~invert) =>
               /\ brightness = 0 => ch = "@"
               /\ brightness = MaxBrightness => ch = " "

C2_Witness ==
    /\ pc = "pixel_done"
    /\ args.char_set = "minimal"
    /\ ~invert
    /\ brightness = MaxBrightness
    /\ index = 2
    /\ ch = " "

\* C3: the index is floor(b * (L-1) / 255) clamped to 0..L-1, and it is
\* monotonic non-decreasing: every smaller brightness maps to an index that
\* is not larger.
C3_Monotonic ==
    pc = "pixel_done" =>
        /\ index = Max(0, Min((brightness * (Len(char_set) - 1)) \div 255,
                              Len(char_set) - 1))
        /\ \A b1 \in 0..MaxBrightness :
               b1 < brightness => PixelIndex(b1, char_set) <= index

C3_Witness ==
    /\ pc = "pixel_done"
    /\ args.char_set = "standard"
    /\ ~invert
    /\ brightness = 128
    /\ index = 4
    /\ PixelIndex(127, char_set) = 4
    /\ PixelIndex(100, char_set) = 3

\* C9: inversion is applied once, at construction, by reversing the ramp; the
\* brightness is never inverted; a converter built on the reversed ramp with
\* inversion on returns the same character as one built on the ramp with
\* inversion off ('light' inverted is 'standard'); inverted '@. ' is ' .@'.
C9_DoubleInversion ==
    /\ invert = args.invert
    /\ char_set = IF args.invert THEN Reverse(GetCharSet(args.char_set))
                                 ELSE GetCharSet(args.char_set)
    /\ (args.char_set = "minimal" /\ args.invert) => char_set = <<" ", ".", "@">>
    /\ (args.char_set = "light" /\ args.invert) => char_set = CHAR_SETS["standard"]
    /\ pc = "pixel_done" =>
        /\ index = (brightness * (Len(char_set) - 1)) \div 255
        /\ ch = pixel_to_char(brightness, ApplyInvert(Reverse(char_set), TRUE))
        /\ ch = pixel_to_char(brightness, ApplyInvert(char_set, FALSE))
        /\ ch = pixel_to_char(brightness,
                   ConverterCharSet(args.char_set, invert))

C9_Witness ==
    /\ pc = "pixel_done"
    /\ args.char_set = "light"
    /\ invert
    /\ brightness = 0
    /\ char_set = CHAR_SETS["standard"]
    /\ ch = "@"

(***************************************************************************)
(* Properties of the driver, under Spec.                                   *)
(***************************************************************************)
\* C4: for a frame that was read and positive width and height, the text
\* frame_to_ascii returns is exactly `height` lines of exactly `width`
\* characters of the ramp, separated by line breaks, with no trailing line
\* break and nothing between the characters of a row, whatever the size of
\* the source frame.
C4_FrameShape ==
    (pc = "print" \/ frame_count > 0) =>
        LET lines == SplitLines(ascii_art)
        IN  /\ width > 0
            /\ height > 0
            /\ Len(lines) = height
            /\ \A i \in 1..Len(lines) :
                   /\ Len(lines[i]) = width
                   /\ \A j \in 1..Len(lines[i]) : lines[i][j] \in Range(char_set)
            /\ Len(ascii_art) = height * width + (height - 1)
            /\ ascii_art[Len(ascii_art)] # NL

C4_Witness ==
    /\ pc = "print"
    /\ width = 1
    /\ height = 2
    /\ Len(frame) = 2
    /\ Len(frame[1]) = 2
    /\ Len(ascii_art) = 3
    /\ ascii_art[2] = NL

\* C5: once run() has acquired the camera it is released before the process
\* ends, on every path, and it is acquired at most once.
C5_ReleasedOnEveryPath ==
    /\ n_open <= 1
    /\ (pc = "exited" /\ n_open > 0 /\ cap # "closed") =>
           (cap = "released" /\ n_release = 1)

\* C6: when the camera cannot be opened run() prints the diagnostic and
\* returns: no frame is read, frame_to_ascii is not called, the frame counter
\* stays 0 and running is never set.
C6_OpenFailure ==
    cap = "closed" =>
        /\ pc = "exited"
        /\ out = <<"ERR_OPEN", "TROUBLESHOOTING">>
        /\ n_open = 1
        /\ n_read = 0
        /\ n_convert = 0
        /\ frame_count = 0
        /\ ~running
        /\ start_time = "None"
        /\ frame = <<>>
        /\ ascii_art = <<>>

C6_Witness ==
    /\ cap = "closed"
    /\ pc = "exited"
    /\ Count(out, "ERR_OPEN") = 1

\* C7: the first read that returns no data ends the session: nothing is read
\* after it, the failed frame is neither converted nor printed nor counted,
\* the diagnostic is printed once and the loop is left.
C7_FirstReadFailureEnds ==
    ret = "False" =>
        /\ pc = "exited"
        /\ n_convert = n_read - 1
        /\ frame_count = n_read - 1
        /\ Count(out, "ART") = frame_count
        /\ Count(out, "ERR_READ") = 1
        /\ EndsWith(out, <<"ERR_READ", "GOODBYE">>)

C7_Witness ==
    /\ ret = "False"
    /\ pc = "exited"
    /\ n_read = 2
    /\ frame_count = 1
    /\ Count(out, "ERR_READ") = 1

\* C8: the exit code is 0 on a normal quit and non-zero when the camera fails
\* to open or a frame read fails, a diagnostic being printed in both cases.
C8_ExitCodes ==
    pc = "exited" =>
        /\ (start_time = "set" /\ ~running) => exit_code = 0
        /\ cap = "closed" => (exit_code # 0 /\ Count(out, "ERR_OPEN") = 1)
        /\ ret = "False" => (exit_code # 0 /\ Count(out, "ERR_READ") = 1)

\* C10: a width or height <= 0 is rejected at construction, before the camera
\* is opened and before any frame is read or converted.
C10_RejectedAtConstruction ==
    (args.width <= 0 \/ args.height <= 0) =>
        /\ n_open = 0
        /\ n_read = 0
        /\ n_convert = 0

====
